---- MODULE Spec2Model ----
(***************************************************************************)
(* Model of the atto editor (src/atto.c): the in-memory document, the      *)
(* row operations, the viewport and the key-press state machine.           *)
(*                                                                         *)
(* A byte is a one-character string.  A row's text is modelled by its      *)
(* first len bytes: every reader in atto.c uses row->len and never the     *)
(* terminating '\0', so bytes of the buffer past len are not observable.   *)
(* The row array is modelled slot by slot, allocated slots included, so    *)
(* that the memmove of editorDelRow moves exactly the slots the code moves.*)
(* C indices are 0-based; sequences are 1-based, so slot i is rows[i + 1]. *)
(***************************************************************************)
EXTENDS Integers, Sequences, FiniteSets, TLC

VARIABLES
    pc,            \* position in main(): "init", "refresh", "key", "exited" (exit()
                   \* was called)
    prompting,     \* TRUE while editorPrompt's loop is running
    promptBuf,     \* editorPrompt's buffer
    screenRows,    \* config.screenRows
    screenCols,    \* config.screenCols
    cursorX,       \* config.cursorX
    cursorY,       \* config.cursorY
    cursorRenderX, \* config.cursorRenderX
    rows,          \* document.rows, one element per allocated slot
    rowsCount,     \* document.rowsCount
    rowOffset,     \* document.rowOffset
    colOffset,     \* document.colOffset
    filename,      \* document.filename
    dirty,         \* document.dirty
    quitTimes,     \* static quitTimes of editorProcessKeyPress
    lastKey,       \* the key c read by the handler that ran last ("none" once drawn)
    changed,       \* history: the rows were modified since the last load/save
    opLog,         \* history of the functions applied directly (RowSpec, DocSpec, LoadSpec)
    saveIo,        \* how the editorSave run by the last key ended: "aborted" (no
                   \* file opened), the outcome of open/ftruncate/write, or
                   \* "none" when the last key ended no editorSave
    quitRun,       \* history: length of the run of consecutive Ctrl+Q presses
                   \* read by editorProcessKeyPress that ends with the last key
    termWrites,    \* the write() calls on STDOUT_FILENO made by the last step
    term           \* the terminal and the process's exit: raw (the terminal is in
                   \* raw mode), rawSet (enableRawMode returned 0), hook
                   \* (atexit(resetTerminal) was called), attempts
                   \* (runs of resetTerminal), restores (those whose tcsetattr
                   \* succeeded), status ("running", "exit0", "exit1")

vars == <<pc, prompting, promptBuf, screenRows, screenCols, cursorX, cursorY,
          cursorRenderX, rows, rowsCount, rowOffset, colOffset, filename,
          dirty, quitTimes, lastKey, changed, opLog, saveIo, quitRun, termWrites,
          term>>

(***************************************************************************)
(* Program constants                                                       *)
(***************************************************************************)
TAB_STOP == 8
QUIT_TIMES == 2
TAB == "\t"
CR == "\r"
LF == "\n"
NoName == <<"NULL">>

(***************************************************************************)
(* Bounds of the model                                                     *)
(***************************************************************************)
MaxRows == 3
MaxBytes == 2
MaxDirty == 2
MaxFileLen == 4
MaxPromptLen == 1
\* the window: screenRows (the terminal's rows less the two bars) and screenCols
ScreenRows == 2
ScreenCols == 3
MaxOps == 2
MaxRowLen == 3
MaxDocRows == 2
MaxMoveFileLen == 6
MaxRestoreAttempts == 2
MaxEditDirty == 4

TypedBytes == {"a", TAB}
FileBytes == {"a", TAB, LF}
PromptBytes == {"f"}

(***************************************************************************)
(* Rows                                                                    *)
(***************************************************************************)
\* Contents of memory that was never initialised or lies outside the array.
Garbage == [len |-> -100, text |-> <<"?">>, renderLen |-> -100, render |-> <<"?">>]

MkRow(l, t, rl, r) == [len |-> l, text |-> t, renderLen |-> rl, render |-> r]

\* rows[i] read through the pointer, whatever i is
Slot(rs, i) == IF i >= 0 /\ i < Len(rs) THEN rs[i + 1] ELSE Garbage

\* rows[i] = r; a store outside the allocated slots does not land in the array
SetSlot(rs, i, r) == IF i >= 0 /\ i < Len(rs) THEN [rs EXCEPT ![i + 1] = r] ELSE rs

RECURSIVE PadToTabStop(_)
PadToTabStop(render) ==
    IF Len(render) % TAB_STOP # 0 THEN PadToTabStop(Append(render, " "))
    ELSE render

RECURSIVE UpdateRowLoop(_, _, _, _)
UpdateRowLoop(text, len, i, render) ==
    IF i >= len THEN render
    ELSE IF text[i + 1] = TAB
         THEN UpdateRowLoop(text, len, i + 1, PadToTabStop(Append(render, " ")))
         ELSE UpdateRowLoop(text, len, i + 1, Append(render, text[i + 1]))

editorUpdateRow(row) ==
    LET render == UpdateRowLoop(row.text, row.len, 0, <<>>)
    IN  [row EXCEPT !.render = render, !.renderLen = Len(render)]

\* editorCursorXToCursorRenderX adding TAB_STOP instead of TAB_STOP - 1
RECURSIVE CursorRenderXLoopTabOff(_, _, _, _)
CursorRenderXLoopTabOff(text, cx, i, rx) ==
    IF i >= cx THEN rx
    ELSE IF text[i + 1] = TAB
         THEN CursorRenderXLoopTabOff(text, cx, i + 1,
                                      rx + (TAB_STOP - (rx % TAB_STOP)) + 1)
         ELSE CursorRenderXLoopTabOff(text, cx, i + 1, rx + 1)

editorCursorXToCursorRenderXTabOff(row, cx) == CursorRenderXLoopTabOff(row.text, cx, 0, 0)

RECURSIVE CursorRenderXLoop(_, _, _, _)
CursorRenderXLoop(text, cx, i, rx) ==
    IF i >= cx THEN rx
    ELSE IF text[i + 1] = TAB
         THEN CursorRenderXLoop(text, cx, i + 1,
                                rx + ((TAB_STOP - 1) - (rx % TAB_STOP)) + 1)
         ELSE CursorRenderXLoop(text, cx, i + 1, rx + 1)

editorCursorXToCursorRenderX(row, cx) == CursorRenderXLoop(row.text, cx, 0, 0)

(***************************************************************************)
(* The editor state as one record, so that a handler is the composition of *)
(* the functions it calls.                                                 *)
(***************************************************************************)
St == [screenRows |-> screenRows, screenCols |-> screenCols,
       cursorX |-> cursorX, cursorY |-> cursorY, cursorRenderX |-> cursorRenderX,
       rows |-> rows, rowsCount |-> rowsCount, rowOffset |-> rowOffset,
       colOffset |-> colOffset, filename |-> filename, dirty |-> dirty]

\* the rows of the document: slots 0 .. rowsCount - 1
DocOf(e) == [i \in 1..e.rowsCount |-> Slot(e.rows, i - 1)]
Doc == DocOf(St)

\* editorInsertCharAtRow storing c one byte to the right
editorInsertCharAtRowShifted(e, c, at0, ri) ==
    LET row  == Slot(e.rows, ri)
        at   == IF at0 < 0 \/ at0 > row.len THEN row.len ELSE at0
        to   == IF at < row.len THEN at + 1 ELSE at
        text == [i \in 1..(row.len + 1) |->
                    IF i <= to THEN row.text[i]
                    ELSE IF i = to + 1 THEN c ELSE row.text[i - 1]]
        new  == editorUpdateRow([row EXCEPT !.text = text, !.len = row.len + 1])
    IN  [e EXCEPT !.rows = SetSlot(e.rows, ri, new), !.dirty = e.dirty + 1]

editorInsertCharAtRow(e, c, at0, ri) ==
    LET row  == Slot(e.rows, ri)
        at   == IF at0 < 0 \/ at0 > row.len THEN row.len ELSE at0
        text == [i \in 1..(row.len + 1) |->
                    IF i <= at THEN row.text[i]
                    ELSE IF i = at + 1 THEN c ELSE row.text[i - 1]]
        new  == editorUpdateRow([row EXCEPT !.text = text, !.len = row.len + 1])
    IN  [e EXCEPT !.rows = SetSlot(e.rows, ri, new), !.dirty = e.dirty + 1]

\* editorDelCharAtRow without document.dirty++
editorDelCharAtRowNoDirty(e, at, ri) ==
    LET row  == Slot(e.rows, ri)
        text == [i \in 1..(row.len - 1) |->
                    IF i <= at THEN row.text[i] ELSE row.text[i + 1]]
        new  == editorUpdateRow([row EXCEPT !.text = text, !.len = row.len - 1])
    IN  IF at < 0 \/ at > row.len THEN e
        ELSE [e EXCEPT !.rows = SetSlot(e.rows, ri, new)]

editorDelCharAtRow(e, at, ri) ==
    LET row  == Slot(e.rows, ri)
        \* memmove(&text[at], &text[at + 1], len - at); len--
        text == [i \in 1..(row.len - 1) |->
                    IF i <= at THEN row.text[i] ELSE row.text[i + 1]]
        new  == editorUpdateRow([row EXCEPT !.text = text, !.len = row.len - 1])
    IN  IF at < 0 \/ at > row.len THEN e
        ELSE [e EXCEPT !.rows = SetSlot(e.rows, ri, new), !.dirty = e.dirty + 1]

editorAppendStringToRow(e, s, len, ri) ==
    LET row == Slot(e.rows, ri)
        new == editorUpdateRow([row EXCEPT !.text = row.text \o SubSeq(s, 1, len),
                                           !.len = row.len + len])
    IN  [e EXCEPT !.rows = SetSlot(e.rows, ri, new), !.dirty = e.dirty + 1]

\* editorInsertRow without the memmove that makes room at slot at
editorInsertRowNoShift(e, at, s, len) ==
    LET n     == e.rowsCount
        grown == [i \in 1..(n + 1) |-> Slot(e.rows, i - 1)]
        new   == editorUpdateRow(MkRow(len, SubSeq(s, 1, len), 0, <<>>))
    IN  IF at < 0 \/ at > n THEN e
        ELSE [e EXCEPT !.rows = SetSlot(grown, at, new),
                       !.rowsCount = n + 1, !.dirty = e.dirty + 1]

editorInsertRow(e, at, s, len) ==
    LET n     == e.rowsCount
        \* realloc(rows, sizeof(TextRow) * (rowsCount + 1))
        grown == [i \in 1..(n + 1) |-> Slot(e.rows, i - 1)]
        \* memmove(&rows[at + 1], &rows[at], sizeof(TextRow) * (rowsCount - at))
        moved == [i \in 1..(n + 1) |->
                    IF i - 1 >= at + 1 THEN grown[i - 1] ELSE grown[i]]
        new   == editorUpdateRow(MkRow(len, SubSeq(s, 1, len), 0, <<>>))
    IN  IF at < 0 \/ at > n THEN e
        ELSE [e EXCEPT !.rows = SetSlot(moved, at, new),
                       !.rowsCount = n + 1, !.dirty = e.dirty + 1]

\* editorFreeRow releases the text and render of slot at; the slot itself is
\* overwritten by the memmove.  The memmove moves rowsCount - at + 1 slots, two
\* more than the rows that follow at: what it reads past the allocated slots is
\* Garbage, and it lands in slots >= rowsCount - 1, which are not rows of the
\* document afterwards; what it writes past the allocated slots does not land
\* in the array.
editorDelRow(e, at) ==
    LET n     == e.rowsCount
        \* memmove(&rows[at], &rows[at + 1], sizeof(TextRow) * (rowsCount - at + 1)):
        \* slots at .. rowsCount are written from slots at + 1 .. rowsCount + 1
        moved == [i \in 1..Len(e.rows) |->
                    IF i - 1 >= at /\ i - 1 <= n THEN Slot(e.rows, i) ELSE e.rows[i]]
    IN  IF at < 0 \/ at > n THEN e
        ELSE [e EXCEPT !.rows = moved, !.rowsCount = n - 1, !.dirty = e.dirty + 1]

\* the slots editorDelRow passes to editorFreeRow, which frees their text and
\* render: none when the guard returns, else &document.rows[at]
editorDelRowFreed(e, at) ==
    IF at < 0 \/ at > e.rowsCount THEN <<>> ELSE <<Slot(e.rows, at)>>

\* the indexes of the slots editorDelRow touches: none when the guard returns,
\* else &rows[at] passed to editorFreeRow, and the rowsCount - at + 1 slots
\* from at + 1 that the memmove reads and those from at that it writes
editorDelRowTouched(e, at) ==
    IF at < 0 \/ at > e.rowsCount THEN {}
    ELSE {at} \cup ((at + 1)..(e.rowsCount + 1)) \cup (at..e.rowsCount)

\* editorDelChar taking the join column after the append
editorDelCharLateColumn(e) ==
    IF e.cursorY = e.rowsCount THEN e
    ELSE IF e.cursorX = 0 /\ e.cursorY = 0 THEN e
    ELSE IF e.cursorX > 0
         THEN LET d == editorDelCharAtRow(e, e.cursorX, e.cursorY)
              IN  [d EXCEPT !.cursorX = e.cursorX - 1]
         ELSE LET row == Slot(e.rows, e.cursorY)
                  a   == editorAppendStringToRow(e, row.text, row.len, e.cursorY - 1)
                  x   == Slot(a.rows, e.cursorY - 1).len
                  d   == editorDelRow(a, e.cursorY)
              IN  [d EXCEPT !.cursorX = x, !.cursorY = e.cursorY - 1]

\* editorDelChar without the first-row, first-column test
editorDelCharNoBoundary(e) ==
    IF e.cursorY = e.rowsCount THEN e
    ELSE IF e.cursorX > 0
         THEN LET d == editorDelCharAtRow(e, e.cursorX, e.cursorY)
              IN  [d EXCEPT !.cursorX = e.cursorX - 1]
         ELSE LET row == Slot(e.rows, e.cursorY)
                  x   == Slot(e.rows, e.cursorY - 1).len
                  a   == editorAppendStringToRow(e, row.text, row.len, e.cursorY - 1)
                  d   == editorDelRow(a, e.cursorY)
              IN  [d EXCEPT !.cursorX = x, !.cursorY = e.cursorY - 1]

editorDelChar(e) ==
    IF e.cursorY = e.rowsCount THEN e
    ELSE IF e.cursorX = 0 /\ e.cursorY = 0 THEN e
    ELSE IF e.cursorX > 0
         THEN LET d == editorDelCharAtRow(e, e.cursorX, e.cursorY)
              IN  [d EXCEPT !.cursorX = e.cursorX - 1]
         ELSE LET row == Slot(e.rows, e.cursorY)
                  x   == Slot(e.rows, e.cursorY - 1).len
                  a   == editorAppendStringToRow(e, row.text, row.len, e.cursorY - 1)
                  d   == editorDelRow(a, e.cursorY)
              IN  [d EXCEPT !.cursorX = x, !.cursorY = e.cursorY - 1]

\* editorInsertNewLine inserting the tail below the row also at column 0
editorInsertNewLineBelow(e) ==
    LET row == Slot(e.rows, e.cursorY)
        i   == editorInsertRow(e, e.cursorY + 1,
                   SubSeq(row.text, e.cursorX + 1, row.len), row.len - e.cursorX)
        cur == Slot(i.rows, e.cursorY)
        cut == editorUpdateRow([cur EXCEPT !.len = e.cursorX,
                                           !.text = SubSeq(cur.text, 1, e.cursorX)])
        ins == [i EXCEPT !.rows = SetSlot(i.rows, e.cursorY, cut)]
    IN  [ins EXCEPT !.cursorX = 0, !.cursorY = e.cursorY + 1]

\* editorInsertNewLine without editorUpdateRow(row) after the truncation
editorInsertNewLineStale(e) ==
    LET ins == IF e.cursorX = 0
               THEN editorInsertRow(e, e.cursorY, <<>>, 0)
               ELSE LET row == Slot(e.rows, e.cursorY)
                        i   == editorInsertRow(e, e.cursorY + 1,
                                   SubSeq(row.text, e.cursorX + 1, row.len),
                                   row.len - e.cursorX)
                        cur == Slot(i.rows, e.cursorY)
                        cut == [cur EXCEPT !.len = e.cursorX,
                                           !.text = SubSeq(cur.text, 1, e.cursorX)]
                    IN  [i EXCEPT !.rows = SetSlot(i.rows, e.cursorY, cut)]
    IN  [ins EXCEPT !.cursorX = 0, !.cursorY = e.cursorY + 1]

editorInsertNewLine(e) ==
    LET ins == IF e.cursorX = 0
               THEN editorInsertRow(e, e.cursorY, <<>>, 0)
               ELSE LET row == Slot(e.rows, e.cursorY)
                        i   == editorInsertRow(e, e.cursorY + 1,
                                   SubSeq(row.text, e.cursorX + 1, row.len),
                                   row.len - e.cursorX)
                        cur == Slot(i.rows, e.cursorY)
                        cut == editorUpdateRow(
                                   [cur EXCEPT !.len = e.cursorX,
                                               !.text = SubSeq(cur.text, 1, e.cursorX)])
                    IN  [i EXCEPT !.rows = SetSlot(i.rows, e.cursorY, cut)]
    IN  [ins EXCEPT !.cursorX = 0, !.cursorY = e.cursorY + 1]

editorInsertChar(e, c) ==
    LET r == IF e.cursorY = e.rowsCount
             THEN editorInsertRow(e, e.rowsCount, <<>>, 0) ELSE e
        i == editorInsertCharAtRow(r, c, r.cursorX, r.cursorY)
    IN  [i EXCEPT !.cursorX = r.cursorX + 1]

(***************************************************************************)
(* Cursor movement and scrolling                                           *)
(***************************************************************************)
\* editorMoveCursor without the trailing clamp
ClampCursorXMissing(e) == e

\* the trailing clamp of editorMoveCursor
ClampCursorX(e) ==
    LET rowLen == IF e.cursorY >= e.rowsCount THEN 0 ELSE Slot(e.rows, e.cursorY).len
    IN  IF e.cursorX > rowLen THEN [e EXCEPT !.cursorX = rowLen] ELSE e

\* editorMoveCursor for the keys that do not recurse
MoveCursorStep(e, key) ==
    LET hasRow == e.cursorY < e.rowsCount
        rowLen == Slot(e.rows, e.cursorY).len
        m == CASE key = "ARROW_LEFT" ->
                    IF e.cursorX > 0 THEN [e EXCEPT !.cursorX = e.cursorX - 1]
                    ELSE IF e.cursorY > 0
                         THEN [e EXCEPT !.cursorY = e.cursorY - 1,
                                        !.cursorX = Slot(e.rows, e.cursorY - 1).len]
                         ELSE e
               [] key = "ARROW_DOWN" ->
                    IF e.cursorY < e.rowsCount
                    THEN [e EXCEPT !.cursorY = e.cursorY + 1] ELSE e
               [] key = "ARROW_RIGHT" ->
                    IF hasRow /\ e.cursorX < rowLen
                    THEN [e EXCEPT !.cursorX = e.cursorX + 1]
                    ELSE IF hasRow /\ e.cursorX = rowLen
                         THEN [e EXCEPT !.cursorY = e.cursorY + 1, !.cursorX = 0]
                         ELSE e
               [] key = "ARROW_UP" ->
                    IF e.cursorY > 0 THEN [e EXCEPT !.cursorY = e.cursorY - 1] ELSE e
               [] key = "HOME_KEY" -> [e EXCEPT !.cursorX = 0]
               [] key = "END_KEY" -> [e EXCEPT !.cursorX = e.screenCols - 1]
               [] OTHER -> e
    IN  ClampCursorX(m)

\* for (i = 0; i < screenRows; i++) editorMoveCursor(key)
RECURSIVE RepeatMove(_, _, _)
RepeatMove(e, key, n) ==
    IF n <= 0 THEN e ELSE RepeatMove(MoveCursorStep(e, key), key, n - 1)

\* editorMoveCursor paging from the cursor's row, not from the window's edge
editorMoveCursorNoAnchor(e, key) ==
    CASE key = "PAGE_UP" -> ClampCursorX(RepeatMove(e, "ARROW_UP", e.screenRows))
      [] key = "PAGE_DOWN" -> ClampCursorX(RepeatMove(e, "ARROW_DOWN", e.screenRows))
      [] OTHER -> MoveCursorStep(e, key)

editorMoveCursor(e, key) ==
    CASE key = "PAGE_UP" ->
            ClampCursorX(RepeatMove([e EXCEPT !.cursorY = e.rowOffset],
                                    "ARROW_UP", e.screenRows))
      [] key = "PAGE_DOWN" ->
            LET y == e.rowOffset + e.screenRows - 1
                a == [e EXCEPT !.cursorY = IF y > e.rowsCount THEN e.rowsCount ELSE y]
            IN  ClampCursorX(RepeatMove(a, "ARROW_DOWN", e.screenRows))
      [] OTHER -> MoveCursorStep(e, key)

\* editorScroll snapping rowOffset to cursorY - screenRows
editorScrollOffByOne(e) ==
    LET rx == IF e.cursorY < e.rowsCount
              THEN editorCursorXToCursorRenderX(Slot(e.rows, e.cursorY), e.cursorX)
              ELSE 0
        c1 == IF rx < e.colOffset THEN rx ELSE e.colOffset
        c2 == IF rx >= c1 + e.screenCols THEN rx - e.screenCols + 1 ELSE c1
        r1 == IF e.cursorY < e.rowOffset THEN e.cursorY ELSE e.rowOffset
        r2 == IF e.cursorY >= r1 + e.screenRows THEN e.cursorY - e.screenRows ELSE r1
    IN  [e EXCEPT !.cursorRenderX = rx, !.colOffset = c2, !.rowOffset = r2]

editorScroll(e) ==
    LET rx == IF e.cursorY < e.rowsCount
              THEN editorCursorXToCursorRenderX(Slot(e.rows, e.cursorY), e.cursorX)
              ELSE 0
        c1 == IF rx < e.colOffset THEN rx ELSE e.colOffset
        c2 == IF rx >= c1 + e.screenCols THEN rx - e.screenCols + 1 ELSE c1
        r1 == IF e.cursorY < e.rowOffset THEN e.cursorY ELSE e.rowOffset
        r2 == IF e.cursorY >= r1 + e.screenRows THEN e.cursorY - e.screenRows + 1 ELSE r1
    IN  [e EXCEPT !.cursorRenderX = rx, !.colOffset = c2, !.rowOffset = r2]

(***************************************************************************)
(* Loading a file                                                          *)
(***************************************************************************)
\* getline(): the bytes up to and including the first '\n', or all of them
RECURSIVE LineEnd(_, _)
LineEnd(f, i) ==
    IF i > Len(f) THEN Len(f) ELSE IF f[i] = LF THEN i ELSE LineEnd(f, i + 1)

\* the strip loop taking off one trailing byte at most
StripLenOnce(line, len) ==
    IF len > 0 /\ (line[len] = CR \/ line[len] = LF) THEN len - 1 ELSE len

\* the strip loop taking off '\n' alone
StripLenLFOnly(line, len) ==
    IF len > 0 /\ line[len] = LF THEN len - 1 ELSE len

\* while (len > 0 && (line[len - 1] == '\r' || line[len - 1] == '\n')) len--
RECURSIVE StripLen(_, _)
StripLen(line, len) ==
    IF len > 0 /\ (line[len] = CR \/ line[len] = LF) THEN StripLen(line, len - 1)
    ELSE len

RECURSIVE OpenLoop(_, _)
OpenLoop(e, f) ==
    IF f = <<>> THEN e
    ELSE LET k    == LineEnd(f, 1)
             line == SubSeq(f, 1, k)
         IN  OpenLoop(editorInsertRow(e, e.rowsCount, line, StripLen(line, k)),
                      SubSeq(f, k + 1, Len(f)))

editorOpen(e, name, f) ==
    [OpenLoop([e EXCEPT !.filename = name], f) EXCEPT !.dirty = 0]

\* editorRowsToString, first loop: totLen += rows[j].len + 1, stored in *bufferLen
RECURSIVE RowsToStringLen(_, _, _)
RowsToStringLen(e, j, totLen) ==
    IF j >= e.rowsCount THEN totLen
    ELSE RowsToStringLen(e, j + 1, totLen + Slot(e.rows, j).len + 1)

\* serialisation of the rows for saving
RECURSIVE RowsToStringLoop(_, _, _)
RowsToStringLoop(e, i, buffer) ==
    IF i >= e.rowsCount THEN buffer
    ELSE LET row == Slot(e.rows, i)
         IN  RowsToStringLoop(e, i + 1, buffer \o SubSeq(row.text, 1, row.len) \o <<LF>>)

\* editorRowsToString with no '\n' after the last row
RECURSIVE RowsToStringLoopNoFinalLF(_, _, _)
RowsToStringLoopNoFinalLF(e, i, buffer) ==
    IF i >= e.rowsCount THEN buffer
    ELSE LET row == Slot(e.rows, i)
         IN  RowsToStringLoopNoFinalLF(e, i + 1,
                 buffer \o SubSeq(row.text, 1, row.len)
                        \o (IF i + 1 = e.rowsCount THEN <<>> ELSE <<LF>>))

editorRowsToStringNoFinalLF(e) == RowsToStringLoopNoFinalLF(e, 0, <<>>)

editorRowsToString(e) == RowsToStringLoop(e, 0, <<>>)

(***************************************************************************)
(* The program: main() constructs the editor, optionally loads a file and  *)
(* then alternates editorRefreshScreen and editorProcessKeyPress.          *)
(***************************************************************************)
\* the terminal before main() has run
TermInit == [raw |-> FALSE, rawSet |-> FALSE, hook |-> FALSE, attempts |-> 0,
             restores |-> 0, status |-> "running"]

\* main() without the atexit(resetTerminal)
StartedNoHook == [TermInit EXCEPT !.raw = TRUE, !.rawSet = TRUE]

\* the terminal after enableRawMode() returned 0 and atexit(resetTerminal)
Started == [TermInit EXCEPT !.raw = TRUE, !.rawSet = TRUE, !.hook = TRUE]

Files == UNION {[1..n -> FileBytes] : n \in 0..MaxFileLen}

RECURSIVE TotalLen(_)
TotalLen(d) == IF d = <<>> THEN 0 ELSE d[1].len + TotalLen(Tail(d))

\* the model's bounds on a document
Bounded(e) ==
    /\ e.rowsCount <= MaxRows
    /\ e.dirty <= MaxDirty
    /\ TotalLen(DocOf(e)) <= MaxBytes

Init ==
    /\ pc = "init"
    /\ prompting = FALSE
    /\ promptBuf = <<>>
    /\ screenRows = 0
    /\ screenCols = 0
    /\ cursorX = 0
    /\ cursorY = 0
    /\ cursorRenderX = 0
    /\ rows = <<>>
    /\ rowsCount = 0
    /\ rowOffset = 0
    /\ colOffset = 0
    /\ filename = NoName
    /\ dirty = 0
    /\ quitTimes = QUIT_TIMES
    /\ lastKey = "none"
    /\ changed = FALSE
    /\ opLog = <<>>
    /\ saveIo = "none"
    /\ quitRun = 0
    /\ termWrites = <<>>
    /\ term = TermInit

\* the editor fields of the next state are those of e
Install(e) ==
    /\ screenRows' = e.screenRows
    /\ screenCols' = e.screenCols
    /\ cursorX' = e.cursorX
    /\ cursorY' = e.cursorY
    /\ cursorRenderX' = e.cursorRenderX
    /\ rows' = e.rows
    /\ rowsCount' = e.rowsCount
    /\ rowOffset' = e.rowOffset
    /\ colOffset' = e.colOffset
    /\ filename' = e.filename
    /\ dirty' = e.dirty

initEditor(sr, sc) ==
    [screenRows |-> sr, screenCols |-> sc, cursorX |-> 0, cursorY |-> 0,
     cursorRenderX |-> 0, rows |-> <<>>, rowsCount |-> 0, rowOffset |-> 0,
     colOffset |-> 0, filename |-> NoName, dirty |-> 0]

\* main() without a file argument
StartEmpty ==
    /\ pc = "init"
    /\ Install(initEditor(ScreenRows, ScreenCols))
    /\ pc' = "refresh"
    /\ changed' = FALSE
    /\ termWrites' = <<>>
    /\ term' = Started
    /\ UNCHANGED <<prompting, promptBuf, quitTimes, lastKey, opLog, saveIo, quitRun>>

\* main() with a file argument: initEditor, then editorOpen
StartOpen ==
    /\ pc = "init"
    /\ \E f \in Files :
          LET e == editorOpen(initEditor(ScreenRows, ScreenCols), <<"f">>, f)
          IN  Bounded(e) /\ Install(e)
    /\ pc' = "refresh"
    /\ changed' = FALSE
    /\ termWrites' = <<>>
    /\ term' = Started
    /\ UNCHANGED <<prompting, promptBuf, quitTimes, lastKey, opLog, saveIo, quitRun>>

\* clearScreeen (terminal.c): write(STDOUT_FILENO, "\x1b[2J", 4), which clears
\* the whole screen, then write(STDOUT_FILENO, "\x1b[H", 3)
clearScreeen == <<"ESC[2J", "ESC[H">>

\* const char *TITLE = "ATTO editor"
TITLE == <<"A", "T", "T", "O", " ", "e", "d", "i", "t", "o", "r">>

\* char version[40] = "version " with ATTO_VERSION "0.0.1" appended
WelcomeVersion == <<"v", "e", "r", "s", "i", "o", "n", " ", "0", ".", "0", ".", "1">>

\* centerText: the bytes appended to sb; while (--centerPadding) appends
\* centerPadding - 1 spaces after the row decorator
centerText(e, text) ==
    LET len == IF Len(text) > e.screenCols THEN e.screenCols ELSE Len(text)
        centerPadding == (e.screenCols - len) \div 2
    IN  (IF centerPadding > 0
         THEN <<"~">> \o [i \in 1..(centerPadding - 1) |-> " "]
         ELSE <<>>)
        \o SubSeq(text, 1, len)

\* editorDrawWelcome: the title, "\r\n", the version
editorDrawWelcome(e) ==
    centerText(e, TITLE) \o <<CR, LF>> \o centerText(e, WelcomeVersion)

\* the body of editorDrawRows' loop for the screen line i
editorDrawRowsLine(e, i) ==
    LET documentRow == e.rowOffset + i
        row == Slot(e.rows, documentRow)
        len0 == row.renderLen - e.colOffset
        len1 == IF len0 < 0 THEN 0 ELSE len0
        len == IF len1 >= e.screenCols THEN e.screenCols ELSE len1
    IN  (IF documentRow >= e.rowsCount
         THEN IF e.rowsCount = 0 /\ i = e.screenRows \div 3
              THEN editorDrawWelcome(e)
              ELSE <<"~">>
         ELSE SubSeq(row.render, e.colOffset + 1, e.colOffset + len))
        \o <<"ESC[K", CR, LF>>

\* editorDrawRows: the lines i, i + 1, ..., screenRows - 1 appended to sb
RECURSIVE editorDrawRowsFrom(_, _)
editorDrawRowsFrom(e, i) ==
    IF i >= e.screenRows THEN <<>>
    ELSE editorDrawRowsLine(e, i) \o editorDrawRowsFrom(e, i + 1)

editorDrawRows(e) == editorDrawRowsFrom(e, 0)

\* the writes of editorRefreshScreen: clearScreeen(), then the rows, the
\* status bar, the message bar and the cursor position are appended to the
\* StringBuffer sb, which one write(STDOUT_FILENO, sb.s, sb.len) sends
editorRefreshScreenWrites == clearScreeen \o <<"sb">>

\* editorRefreshScreen: editorScroll, then the frame is drawn
Refresh ==
    /\ pc = "refresh"
    /\ Install(editorScroll(St))
    /\ pc' = "key"
    /\ lastKey' = "none"
    /\ saveIo' = "none"
    /\ termWrites' = editorRefreshScreenWrites
    /\ UNCHANGED term
    /\ UNCHANGED <<prompting, promptBuf, quitTimes, changed, opLog, quitRun>>

\* a key handled without the quitTimes = QUIT_TIMES that ends the function
HandledNoReset(key, e) ==
    /\ pc = "key"
    /\ lastKey' = key
    /\ ~prompting
    /\ Bounded(e)
    /\ Install(e)
    /\ pc' = "refresh"
    /\ changed' = (changed \/ DocOf(e) # Doc)
    /\ quitRun' = 0
    /\ termWrites' = <<>>
    /\ UNCHANGED term
    /\ UNCHANGED <<prompting, promptBuf, opLog, saveIo, quitTimes>>

\* a key handled by editorProcessKeyPress that ends in quitTimes = QUIT_TIMES;
\* log is the history kept of it
HandledKey(key, e, log) ==
    /\ pc = "key"
    /\ lastKey' = key
    /\ ~prompting
    /\ Install(e)
    /\ pc' = "refresh"
    /\ quitTimes' = QUIT_TIMES
    /\ changed' = (changed \/ DocOf(e) # Doc)
    /\ quitRun' = 0
    /\ termWrites' = <<>>
    /\ opLog' = log
    /\ UNCHANGED <<prompting, promptBuf, saveIo, term>>

\* a handled key whose result is within the model's bounds
Handled(key, e) ==
    /\ pc = "key"
    /\ ~prompting
    /\ Bounded(e)
    /\ HandledKey(key, e, opLog)

KeyEnter == Handled("ENTER", editorInsertNewLine(St))

\* BACKSPACE and CTRL_KEY('h')
KeyBackspace == Handled("BACKSPACE", editorDelChar(St))

KeyDelete == Handled("DEL_KEY", editorDelChar(editorMoveCursor(St, "ARROW_RIGHT")))

MoveKeys == {"ARROW_UP", "ARROW_DOWN", "ARROW_LEFT", "ARROW_RIGHT",
             "PAGE_UP", "PAGE_DOWN", "HOME_KEY", "END_KEY"}

KeyMove(k) == Handled(k, editorMoveCursor(St, k))

\* CTRL_KEY('l') and ESC_CHAR
KeyIgnored == Handled("ESC_CHAR", St)

KeyChar(c) == Handled(c, editorInsertChar(St, c))

\* CTRL_KEY('q') with the countdown tested as quitTimes > 1
KeyQuitEarly ==
    /\ pc = "key"
    /\ ~prompting
    /\ lastKey' = "CTRL_Q"
    /\ IF dirty # 0 /\ quitTimes > 1
       THEN /\ quitTimes' = quitTimes - 1
            /\ pc' = "refresh"
            /\ termWrites' = <<>>
            /\ UNCHANGED term
       ELSE /\ pc' = "exited"
            /\ termWrites' = clearScreeen
            /\ term' = [term EXCEPT !.status = "exit0"]
            /\ UNCHANGED quitTimes
    /\ quitRun' = quitRun + 1
    /\ UNCHANGED <<prompting, promptBuf, screenRows, screenCols, cursorX, cursorY,
                   cursorRenderX, rows, rowsCount, rowOffset, colOffset, filename,
                   dirty, changed, opLog, saveIo>>

\* CTRL_KEY('q'): a warning and quitTimes--, or clearScreeen() and exit(0)
KeyQuit ==
    /\ pc = "key"
    /\ ~prompting
    /\ lastKey' = "CTRL_Q"
    /\ IF dirty # 0 /\ quitTimes > 0
       THEN /\ quitTimes' = quitTimes - 1
            /\ pc' = "refresh"
            /\ termWrites' = <<>>
            /\ UNCHANGED term
       ELSE /\ pc' = "exited"
            /\ termWrites' = clearScreeen
            /\ term' = [term EXCEPT !.status = "exit0"]
            /\ UNCHANGED quitTimes
    /\ quitRun' = quitRun + 1
    /\ UNCHANGED <<prompting, promptBuf, screenRows, screenCols, cursorX, cursorY,
                   cursorRenderX, rows, rowsCount, rowOffset, colOffset, filename,
                   dirty, changed, opLog, saveIo>>

\* outcomes of open / ftruncate / write in editorSave
IoOutcomes == {"ok", "openFails", "truncateFails", "writeFails"}

\* editorSave from the point where document.filename is set
SaveWrite(name, io) ==
    /\ lastKey' = IF prompting THEN "ENTER" ELSE "CTRL_S"
    /\ Install([St EXCEPT !.filename = name,
                          !.dirty = IF io = "ok" THEN 0 ELSE dirty])
    /\ changed' = IF io = "ok" THEN FALSE ELSE changed
    /\ pc' = "refresh"
    /\ quitTimes' = QUIT_TIMES
    /\ prompting' = FALSE
    /\ promptBuf' = <<>>
    /\ saveIo' = io
    /\ quitRun' = 0
    /\ termWrites' = <<>>
    /\ UNCHANGED term
    /\ UNCHANGED opLog

\* CTRL_KEY('s') with a filename
KeySave ==
    /\ pc = "key"
    /\ ~prompting
    /\ filename # NoName
    /\ \E io \in IoOutcomes : SaveWrite(filename, io)

\* CTRL_KEY('s') without a filename: editorSave enters editorPrompt
KeySavePrompt ==
    /\ pc = "key"
    /\ ~prompting
    /\ filename = NoName
    /\ lastKey' = "CTRL_S"
    /\ prompting' = TRUE
    /\ promptBuf' = <<>>
    /\ pc' = "refresh"
    /\ quitRun' = 0
    /\ termWrites' = <<>>
    /\ UNCHANGED term
    /\ UNCHANGED <<screenRows, screenCols, cursorX, cursorY, cursorRenderX, rows,
                   rowsCount, rowOffset, colOffset, filename, dirty, quitTimes,
                   changed, opLog, saveIo>>

\* one iteration of editorPrompt's loop that stays in the loop
PromptStay(key, buf) ==
    /\ pc = "key"
    /\ prompting
    /\ lastKey' = key
    /\ promptBuf' = buf
    /\ pc' = "refresh"
    /\ quitRun' = 0
    /\ termWrites' = <<>>
    /\ UNCHANGED term
    /\ UNCHANGED <<prompting, screenRows, screenCols, cursorX, cursorY, cursorRenderX,
                   rows, rowsCount, rowOffset, colOffset, filename, dirty, quitTimes,
                   changed, opLog, saveIo>>

\* Escape taken for Enter: editorPrompt returns the buffer and the save succeeds
PromptEscapeSaves ==
    /\ pc = "key"
    /\ prompting
    /\ lastKey' = "ESC_CHAR"
    /\ prompting' = FALSE
    /\ promptBuf' = <<>>
    /\ pc' = "refresh"
    /\ quitTimes' = QUIT_TIMES
    /\ quitRun' = 0
    /\ termWrites' = <<>>
    /\ UNCHANGED term
    /\ saveIo' = "ok"
    /\ filename' = promptBuf
    /\ dirty' = 0
    /\ changed' = FALSE
    /\ UNCHANGED <<screenRows, screenCols, cursorX, cursorY, cursorRenderX, rows,
                   rowsCount, rowOffset, colOffset, opLog>>

\* ESC_CHAR: editorPrompt returns NULL, editorSave reports "Save aborted!"
PromptEscape ==
    /\ pc = "key"
    /\ prompting
    /\ lastKey' = "ESC_CHAR"
    /\ prompting' = FALSE
    /\ promptBuf' = <<>>
    /\ pc' = "refresh"
    /\ quitTimes' = QUIT_TIMES
    /\ quitRun' = 0
    /\ termWrites' = <<>>
    /\ UNCHANGED term
    /\ saveIo' = "aborted"
    /\ UNCHANGED <<screenRows, screenCols, cursorX, cursorY, cursorRenderX, rows,
                   rowsCount, rowOffset, colOffset, filename, dirty, changed, opLog>>

\* DEL_KEY, CTRL_KEY('h'), BACKSPACE
PromptBackspace ==
    PromptStay("BACKSPACE",
               IF Len(promptBuf) # 0
               THEN SubSeq(promptBuf, 1, Len(promptBuf) - 1) ELSE promptBuf)

PromptEnter ==
    IF Len(promptBuf) # 0
    THEN /\ pc = "key"
         /\ prompting
         /\ \E io \in IoOutcomes : SaveWrite(promptBuf, io)
    ELSE PromptStay("ENTER", promptBuf)

PromptChar(c) ==
    /\ Len(promptBuf) < MaxPromptLen
    /\ PromptStay(c, Append(promptBuf, c))

\* a control byte or a key code >= 128
PromptIgnored == PromptStay("ARROW_UP", promptBuf)

\* bytes read at the prompt, each with its value as an unsigned char
PromptInput == {[byte |-> "f", value |-> 102], [byte |-> TAB, value |-> 9],
                [byte |-> "0xFF", value |-> 255]}

\* editorReadKey(): read() stores the byte in a char c and return c converts it
\* to int; whether char is signed is the build's choice
KeyCode(value, charSigned) ==
    IF charSigned /\ value >= 128 THEN value - 256 ELSE value

\* iscntrl() in the C locale, for an unsigned char value or EOF (-1)
iscntrl(c) == c \in 0..31 \/ c = 127

\* editorPrompt's last branch: else if (!iscntrl(c) && c < 128)
PromptAccepts(c) == ~iscntrl(c) /\ c < 128

\* editorPrompt reads a byte that is none of ESC, DEL/Ctrl-H/BACKSPACE, '\r'
PromptByte(k) ==
    \E charSigned \in BOOLEAN :
        LET c == KeyCode(k.value, charSigned)
        IN  /\ c \notin {27, 127, 8, 13}
            /\ IF PromptAccepts(c)
               THEN /\ Len(promptBuf) < MaxPromptLen
                    /\ PromptStay(k.byte, Append(promptBuf, k.byte))
               ELSE PromptStay(k.byte, promptBuf)

\* the main loop as far as the keys that edit the rows or move the cursor
EditLoop ==
    \/ Refresh
    \/ KeyEnter
    \/ KeyBackspace
    \/ KeyDelete
    \/ \E k \in MoveKeys : KeyMove(k)
    \/ \E c \in TypedBytes : KeyChar(c)

\* for (;;) { editorRefreshScreen(); editorProcessKeyPress(); }
MainLoop ==
    \/ EditLoop
    \/ KeyIgnored
    \/ KeyQuit
    \/ KeySave
    \/ KeySavePrompt
    \/ PromptEscape
    \/ PromptBackspace
    \/ PromptEnter
    \/ \E c \in PromptBytes : PromptChar(c)
    \/ PromptIgnored

Next ==
    \/ StartEmpty
    \/ StartOpen
    \/ MainLoop

Spec == Init /\ [][Next]_vars

(***************************************************************************)
(* CrSpec: the program started on a file that holds '\r' bytes, at the end *)
(* of lines or anywhere else.  opLog keeps whether the file that was       *)
(* opened had a '\r' elsewhere than at the end of a line.  The keys are     *)
(* those that edit the rows or move the cursor.                            *)
(***************************************************************************)
CrFileBytes == {"a", CR, LF}

LoadFiles == UNION {[1..n -> CrFileBytes] : n \in 0..MaxFileLen}

CrFiles == {f \in LoadFiles : \E i \in 1..Len(f) : f[i] = CR}

\* the file f has a '\r' that a byte other than '\r' and '\n' follows on its line
StrayCR(f) ==
    \E i \in 1..Len(f) : \E j \in (i + 1)..Len(f) :
        /\ f[i] = CR
        /\ f[j] \notin {CR, LF}
        /\ \A k \in i..j : f[k] # LF

\* main() with a file argument, the file drawn from CrFiles
StartOpenCr ==
    /\ pc = "init"
    /\ \E f \in CrFiles :
          LET e == editorOpen(initEditor(ScreenRows, ScreenCols), <<"f">>, f)
          IN  /\ Bounded(e)
              /\ Install(e)
              /\ opLog' = <<[op |-> "open", strayCR |-> StrayCR(f)]>>
    /\ pc' = "refresh"
    /\ changed' = FALSE
    /\ termWrites' = <<>>
    /\ term' = Started
    /\ UNCHANGED <<prompting, promptBuf, quitTimes, lastKey, saveIo, quitRun>>

CrNext == StartOpenCr \/ EditLoop

CrSpec == Init /\ [][CrNext]_vars

(***************************************************************************)
(* EditSpec: the editing and movement keys of the main loop; opLog holds   *)
(* the editor as it was before Enter while Enter is the last key, or the   *)
(* last two keys are Enter then Backspace.                                 *)
(***************************************************************************)
\* the bounds of EditSpec on a document
EditBounded(e) ==
    /\ e.rowsCount <= MaxRows
    /\ e.dirty <= MaxEditDirty
    /\ TotalLen(DocOf(e)) <= MaxBytes

EditEnter ==
    LET e == editorInsertNewLine(St)
    IN  /\ pc = "key"
        /\ EditBounded(e)
        /\ HandledKey("ENTER", e, <<[op |-> "enter", before |-> St]>>)

EditBackspace ==
    LET e == editorDelChar(St)
    IN  /\ pc = "key"
        /\ EditBounded(e)
        /\ HandledKey("BACKSPACE", e,
                      IF opLog # <<>> /\ opLog[1].op = "enter"
                      THEN <<[op |-> "enterBackspace", before |-> opLog[1].before]>>
                      ELSE <<>>)

EditDelete ==
    LET e == editorDelChar(editorMoveCursor(St, "ARROW_RIGHT"))
    IN  pc = "key" /\ EditBounded(e) /\ HandledKey("DEL_KEY", e, <<>>)

EditMove(k) == HandledKey(k, editorMoveCursor(St, k), <<>>)

EditChar(c) ==
    LET e == editorInsertChar(St, c)
    IN  pc = "key" /\ EditBounded(e) /\ HandledKey(c, e, <<>>)

EditNext ==
    \/ StartEmpty
    \/ StartOpen
    \/ Refresh
    \/ EditEnter
    \/ EditBackspace
    \/ EditDelete
    \/ \E k \in MoveKeys : EditMove(k)
    \/ \E c \in TypedBytes : EditChar(c)

EditSpec == Init /\ [][EditNext]_vars

(***************************************************************************)
(* PromptSpec: an unnamed document is edited and saved through the prompt. *)
(***************************************************************************)
PromptNext ==
    \/ StartEmpty
    \/ Refresh
    \/ KeyEnter
    \/ \E c \in TypedBytes : KeyChar(c)
    \/ KeySave
    \/ KeySavePrompt
    \/ PromptEscape
    \/ PromptBackspace
    \/ PromptEnter
    \/ PromptIgnored
    \/ \E k \in PromptInput : PromptByte(k)

PromptSpec == Init /\ [][PromptNext]_vars

(***************************************************************************)
(* ExitSpec: the program with the failures that end it in die() and with   *)
(* what exit() runs.  pc = "exited" is the process inside exit(), before   *)
(* the functions registered with atexit have run; pc = "ended" is the      *)
(* process gone; pc = "hung" is the process stuck inside exit().           *)
(***************************************************************************)
\* die(): clearScreeen(), perror(), exit(1); the editor is left as it is
Die ==
    /\ pc' = "exited"
    /\ termWrites' = clearScreeen
    /\ UNCHANGED <<prompting, promptBuf, quitTimes, lastKey, changed, opLog, saveIo,
                   quitRun>>

EditorUnchanged ==
    UNCHANGED <<screenRows, screenCols, cursorX, cursorY, cursorRenderX, rows,
                rowsCount, rowOffset, colOffset, filename, dirty>>

\* main(): enableRawMode() returns -1 (tcgetattr or tcsetattr failed), die()
StartRawFails ==
    /\ pc = "init"
    /\ Die
    /\ EditorUnchanged
    /\ term' = [term EXCEPT !.status = "exit1"]

\* main(): initEditor() calls die() because getWindowSize() returns -1
StartSizeFails ==
    /\ pc = "init"
    /\ Die
    /\ EditorUnchanged
    /\ term' = [Started EXCEPT !.status = "exit1"]

\* main(): editorOpen() calls die() because fopen() returns NULL
StartOpenFails ==
    /\ pc = "init"
    /\ Die
    /\ Install([initEditor(ScreenRows, ScreenCols) EXCEPT !.filename = <<"f">>])
    /\ term' = [Started EXCEPT !.status = "exit1"]

\* editorReadKey(): read() returns -1 with errno other than EAGAIN, die()
ReadFails ==
    /\ pc = "key"
    /\ Die
    /\ EditorUnchanged
    /\ term' = [term EXCEPT !.status = "exit1"]

ExitFrame ==
    /\ EditorUnchanged
    /\ UNCHANGED <<prompting, promptBuf, quitTimes, lastKey, changed, opLog, saveIo,
                   quitRun>>

\* exit() with no function registered
AtExitNone ==
    /\ pc = "exited"
    /\ ~term.hook
    /\ pc' = "ended"
    /\ termWrites' = <<>>
    /\ UNCHANGED term
    /\ ExitFrame

\* exit() runs resetTerminal(), whose disableRawMode() returns 0
AtExitRestore ==
    /\ pc = "exited"
    /\ term.hook
    /\ pc' = "ended"
    /\ termWrites' = <<>>
    /\ term' = [term EXCEPT !.raw = FALSE, !.attempts = term.attempts + 1,
                            !.restores = term.restores + 1]
    /\ ExitFrame

\* exit() runs resetTerminal(), whose disableRawMode() returns -1: die() calls
\* exit(1) from inside the function exit() is running, which is undefined;
\* the process then ends, or runs the registered functions again, or never
\* leaves exit()
AtExitRestoreFails ==
    /\ pc = "exited"
    /\ term.hook
    /\ term.attempts < MaxRestoreAttempts
    /\ pc' \in {"ended", "exited", "hung"}
    /\ termWrites' = clearScreeen
    /\ term' = [term EXCEPT !.attempts = term.attempts + 1, !.status = "exit1"]
    /\ ExitFrame

ExitNext ==
    \/ StartEmpty
    \/ StartOpen
    \/ StartRawFails
    \/ StartSizeFails
    \/ StartOpenFails
    \/ Refresh
    \/ \E c \in TypedBytes : KeyChar(c)
    \/ KeyQuit
    \/ KeySave
    \/ KeySavePrompt
    \/ PromptEscape
    \/ PromptEnter
    \/ \E c \in PromptBytes : PromptChar(c)
    \/ ReadFails
    \/ AtExitNone
    \/ AtExitRestore
    \/ AtExitRestoreFails

ExitSpec == Init /\ [][ExitNext]_vars

(***************************************************************************)
(* MoveSpec: the program started on a file of rows of any length within    *)
(* MaxMoveFileLen, rows longer than the window included, and driven by the *)
(* keys that move the cursor.                                              *)
(***************************************************************************)
MoveFiles == UNION {[1..n -> {"a", LF}] : n \in 0..MaxMoveFileLen}

\* main() with a file argument, the file drawn from MoveFiles
MoveStart ==
    /\ pc = "init"
    /\ \E f \in MoveFiles :
          Install(editorOpen(initEditor(ScreenRows, ScreenCols), <<"f">>, f))
    /\ pc' = "refresh"
    /\ changed' = FALSE
    /\ termWrites' = <<>>
    /\ term' = Started
    /\ UNCHANGED <<prompting, promptBuf, quitTimes, lastKey, opLog, saveIo, quitRun>>

\* the cases of editorProcessKeyPress that call editorMoveCursor(c)
MoveKey(k) == HandledKey(k, editorMoveCursor(St, k), opLog)

MoveNext == MoveStart \/ Refresh \/ \E k \in MoveKeys : MoveKey(k)

MoveSpec == Init /\ [][MoveNext]_vars

(***************************************************************************)
(* LoadSpec: editorOpen applied to a file, then editorRowsToString applied *)
(* to what was loaded.  opLog holds the file and the result.               *)
(***************************************************************************)
LoadInit ==
    /\ pc = "load"
    /\ prompting = FALSE
    /\ promptBuf = <<>>
    /\ screenRows = ScreenRows
    /\ screenCols = ScreenCols
    /\ cursorX = 0
    /\ cursorY = 0
    /\ cursorRenderX = 0
    /\ rows = <<>>
    /\ rowsCount = 0
    /\ rowOffset = 0
    /\ colOffset = 0
    /\ filename = NoName
    /\ dirty = 0
    /\ quitTimes = QUIT_TIMES
    /\ lastKey = "none"
    /\ changed = FALSE
    /\ opLog = <<>>
    /\ saveIo = "none"
    /\ quitRun = 0
    /\ termWrites = <<>>
    /\ term = TermInit

LoadUnchanged ==
    UNCHANGED <<prompting, promptBuf, quitTimes, lastKey, changed, saveIo, quitRun,
                termWrites, term>>

\* editorOpen(argv[1])
LoadOpen ==
    /\ pc = "load"
    /\ \E f \in LoadFiles :
          /\ Install(editorOpen(St, <<"f">>, f))
          /\ opLog' = <<[op |-> "open", file |-> f]>>
    /\ pc' = "loaded"
    /\ LoadUnchanged

\* char *buffer = editorRowsToString(&len), right after the load
LoadRowsToString ==
    /\ pc = "loaded"
    /\ opLog' = <<[op |-> "rowsToString", file |-> opLog[1].file,
                   result |-> [buffer |-> editorRowsToString(St),
                               bufferLen |-> RowsToStringLen(St, 0, 0)]]>>
    /\ pc' = "serialised"
    /\ Install(St)
    /\ LoadUnchanged

LoadNext == LoadOpen \/ LoadRowsToString

LoadSpec == LoadInit /\ [][LoadNext]_vars

(***************************************************************************)
(* DocSpec: the document functions editorInsertRow, editorDelRow and       *)
(* editorRowsToString applied directly to a document, with every index     *)
(* around the document's bounds.  opLog holds the last call.               *)
(***************************************************************************)
Range(q) == {q[i] : i \in DOMAIN q}

DocTexts == {<<>>, <<"a">>, <<TAB, "a">>}

DocRows == UNION {[1..n -> DocTexts] : n \in 0..MaxDocRows}

DocInit ==
    /\ pc = "docops"
    /\ prompting = FALSE
    /\ promptBuf = <<>>
    /\ screenRows = 0
    /\ screenCols = 0
    /\ cursorX = 0
    /\ cursorY = 0
    /\ cursorRenderX = 0
    /\ \E d \in DocRows :
          /\ rows = [i \in 1..Len(d) |-> editorUpdateRow(MkRow(Len(d[i]), d[i], 0, <<>>))]
          /\ rowsCount = Len(d)
    /\ rowOffset = 0
    /\ colOffset = 0
    /\ filename = NoName
    /\ dirty = 0
    /\ quitTimes = QUIT_TIMES
    /\ lastKey = "none"
    /\ changed = FALSE
    /\ opLog = <<>>
    /\ saveIo = "none"
    /\ quitRun = 0
    /\ termWrites = <<>>
    /\ term = TermInit

\* a call on the document, logged with the editor before and after it
DocOp(op, at, s, e, freed, result) ==
    /\ pc = "docops"
    /\ rowsCount >= 0
    /\ rowsCount <= MaxDocRows
    /\ dirty < MaxDirty
    /\ Install(e)
    /\ opLog' = <<[op |-> op, at |-> at, text |-> s, before |-> St, after |-> e,
                   freed |-> freed, result |-> result]>>
    /\ UNCHANGED <<pc, prompting, promptBuf, quitTimes, lastKey, changed, saveIo,
                   quitRun, termWrites, term>>

DocIndexes == -1..(rowsCount + 1)

DocInsertRow ==
    \E at \in DocIndexes, s \in DocTexts :
        DocOp("insertRow", at, s, editorInsertRow(St, at, s, Len(s)), <<>>, <<>>)

\* editorDelRow whose editorFreeRow is handed a slot of the document, or none
DocDelRow ==
    \E at \in DocIndexes :
        /\ Garbage \notin Range(editorDelRowFreed(St, at))
        /\ DocOp("delRow", at, <<>>, editorDelRow(St, at), editorDelRowFreed(St, at), <<>>)

\* editorDelRow whose editorFreeRow is handed memory that holds no row
\* (at == rowsCount): free() of indeterminate pointers either goes unnoticed,
\* and the call continues, or ends the process
DocDelRowWild ==
    \E at \in DocIndexes :
        /\ Garbage \in Range(editorDelRowFreed(St, at))
        /\ \/ DocOp("delRow", at, <<>>, editorDelRow(St, at),
                     editorDelRowFreed(St, at), <<>>)
           \/ /\ pc = "docops"
              /\ pc' = "crashed"
              /\ opLog' = <<[op |-> "delRow", at |-> at, text |-> <<>>, before |-> St,
                             after |-> St, freed |-> editorDelRowFreed(St, at),
                             result |-> <<>>]>>
              /\ UNCHANGED <<prompting, promptBuf, screenRows, screenCols, cursorX,
                             cursorY, cursorRenderX, rows, rowsCount, rowOffset,
                             colOffset, filename, dirty, quitTimes, lastKey, changed,
                             saveIo, quitRun, termWrites, term>>

\* char *buffer = editorRowsToString(&len)
DocRowsToString ==
    DocOp("rowsToString", 0, <<>>, St, <<>>,
          [buffer |-> editorRowsToString(St), bufferLen |-> RowsToStringLen(St, 0, 0)])

DocNext == DocInsertRow \/ DocDelRow \/ DocDelRowWild \/ DocRowsToString

DocSpec == DocInit /\ [][DocNext]_vars

(***************************************************************************)
(* RowSpec: the row functions applied directly to one row, document.rows[0]*)
(* of a one-row document, with every offset around the row's bounds.       *)
(***************************************************************************)
RowTexts == UNION {[1..n -> TypedBytes] : n \in 0..MaxRowLen}

RowInit ==
    /\ pc = "rowops"
    /\ prompting = FALSE
    /\ promptBuf = <<>>
    /\ screenRows = 0
    /\ screenCols = 0
    /\ cursorX = 0
    /\ cursorY = 0
    /\ cursorRenderX = 0
    /\ \E t \in RowTexts : rows = <<editorUpdateRow(MkRow(Len(t), t, 0, <<>>))>>
    /\ rowsCount = 1
    /\ rowOffset = 0
    /\ colOffset = 0
    /\ filename = NoName
    /\ dirty = 0
    /\ quitTimes = QUIT_TIMES
    /\ lastKey = "none"
    /\ changed = FALSE
    /\ opLog = <<>>
    /\ saveIo = "none"
    /\ quitRun = 0
    /\ termWrites = <<>>
    /\ term = TermInit

LogEntry(op, at, c, e, result) ==
    [op |-> op, at |-> at, c |-> c, before |-> Slot(rows, 0), after |-> Slot(e.rows, 0),
     dirtyBefore |-> dirty, dirtyAfter |-> e.dirty, result |-> result]

\* a call on the row, logged
RowOp(op, at, c, e, result) ==
    /\ pc = "rowops"
    /\ Len(opLog) < MaxOps
    /\ Slot(rows, 0).len >= 0
    /\ rows' = e.rows
    /\ dirty' = e.dirty
    /\ opLog' = Append(opLog, LogEntry(op, at, c, e, result))
    /\ UNCHANGED <<pc, prompting, promptBuf, screenRows, screenCols, cursorX, cursorY,
                   cursorRenderX, rowsCount, rowOffset, colOffset, filename,
                   quitTimes, lastKey, changed, saveIo, quitRun, termWrites, term>>

Offsets == -1..(Slot(rows, 0).len + 1)

RowInsertChar ==
    \E c \in TypedBytes, at \in Offsets :
        RowOp("insertChar", at, c, editorInsertCharAtRow(St, c, at, 0), 0)

RowDelChar ==
    \E at \in Offsets :
        RowOp("delChar", at, "", editorDelCharAtRow(St, at, 0), 0)

RowCursorX ==
    \E cx \in 0..Slot(rows, 0).len :
        RowOp("cursorXToRenderX", cx, "", St,
              editorCursorXToCursorRenderX(Slot(rows, 0), cx))

RowNext == RowInsertChar \/ RowDelChar \/ RowCursorX

RowSpec == RowInit /\ [][RowNext]_vars

(***************************************************************************)
(* Properties                                                              *)
(***************************************************************************)
Running == pc \in {"refresh", "key", "exited"}

\* tab expansion as the specification words it: a tab becomes the spaces up
\* to the next multiple of the tab stop, any other byte is copied
RECURSIVE TabExpand(_)
TabExpand(t) ==
    IF t = <<>> THEN <<>>
    ELSE LET p    == TabExpand(SubSeq(t, 1, Len(t) - 1))
             last == t[Len(t)]
         IN  IF last = TAB
             THEN p \o [i \in 1..(TAB_STOP - (Len(p) % TAB_STOP)) |-> " "]
             ELSE Append(p, last)

\* render-space column of the cursor, 0 on the virtual row past the end
RenderCol ==
    IF cursorY >= 0 /\ cursorY < rowsCount
    THEN Len(TabExpand(SubSeq(Doc[cursorY + 1].text, 1, cursorX)))
    ELSE 0

\* C1: after editorScroll (the state in which the next key is awaited) the
\* cursor row lies in [rowOffset, rowOffset + screenRows) and the cursor's
\* render column lies in [colOffset, colOffset + screenCols).
C1_CursorInsideWindow ==
    pc = "key" =>
        /\ screenRows > 0 /\ screenCols > 0
        /\ rowOffset <= cursorY /\ cursorY < rowOffset + screenRows
        /\ cursorRenderX = RenderCol
        /\ colOffset <= RenderCol /\ RenderCol < colOffset + screenCols

C1_Witness ==
    /\ pc = "key" /\ changed
    /\ rowOffset > 0 /\ colOffset > 0
    /\ cursorY = rowOffset + screenRows - 1
    /\ RenderCol = colOffset + screenCols - 1

\* C2: editorCursorXToCursorRenderX(row, cx), for cx in [0, row.len], is the
\* length of the tab expansion of the first cx bytes, and at cx = row.len it
\* is row.renderLen.
C2_CursorXMatchesRender ==
    \A k \in 1..Len(opLog) :
        opLog[k].op = "cursorXToRenderX" =>
            LET row == opLog[k].before
            IN  /\ opLog[k].result = Len(TabExpand(SubSeq(row.text, 1, opLog[k].at)))
                /\ opLog[k].at = row.len => opLog[k].result = row.renderLen

C2_Witness ==
    \E k \in 1..Len(opLog) :
        /\ opLog[k].op = "cursorXToRenderX"
        /\ opLog[k].at = 2
        /\ SubSeq(opLog[k].before.text, 1, 2) = <<"a", TAB>>
        /\ opLog[k].result = 8

HasTab(t) == \E i \in 1..Len(t) : t[i] = TAB

\* C3: every row's render is the tab expansion of its text and renderLen is
\* its length, so renderLen >= len, and render = text when there is no tab.
C3_RenderInSync ==
    Running =>
        \A i \in 1..rowsCount :
            LET r == Doc[i]
            IN  /\ r.len = Len(r.text)
                /\ r.render = TabExpand(r.text)
                /\ r.renderLen = Len(r.render)
                /\ r.renderLen >= r.len
                /\ ~HasTab(r.text) => (r.render = r.text /\ r.renderLen = r.len)

C3_Witness ==
    /\ pc = "refresh" /\ ~prompting
    /\ lastKey \in {"ENTER", "BACKSPACE", "DEL_KEY"}
    /\ changed
    /\ \E i \in 1..rowsCount : HasTab(Doc[i].text) /\ Doc[i].renderLen > Doc[i].len

\* C4: the cursor is in range: 0 <= cursorY <= rowsCount, cursorX is within
\* [0, len] of the row at cursorY, and it is 0 on the virtual row.
C4_CursorInRange ==
    Running =>
        /\ 0 <= cursorY /\ cursorY <= rowsCount
        /\ cursorY < rowsCount => (0 <= cursorX /\ cursorX <= Doc[cursorY + 1].len)
        /\ cursorY = rowsCount => cursorX = 0

C4_Witness ==
    /\ pc = "refresh" /\ ~prompting
    /\ lastKey = "ARROW_DOWN"
    /\ cursorY > 0 /\ cursorY < rowsCount
    /\ Doc[cursorY].len > Doc[cursorY + 1].len
    /\ cursorX = Doc[cursorY + 1].len

\* C5: dirty is 0 after a load and after a successful save, a key that
\* modifies the rows increases dirty and no other key changes it, so dirty is
\* 0 exactly when the rows were not modified since the last load or save.
C5_DirtyTracksChanges ==
    /\ [](Running => (dirty = 0 <=> ~changed))
    /\ [][pc = "init" => dirty' = 0]_vars
    /\ [][pc = "key" =>
            IF Doc' # Doc THEN dirty' > dirty
            ELSE \/ dirty' = dirty
                 \/ lastKey' \in {"CTRL_S", "ENTER"} /\ dirty' = 0]_vars

C5_Witness ==
    /\ pc = "refresh" /\ ~prompting
    /\ lastKey = "ENTER"
    /\ filename # NoName
    /\ rowsCount > 0
    /\ dirty = 0

TextsOf(d) == [i \in 1..Len(d) |-> d[i].text]

\* C6: Enter at (y, x) with x > 0 leaves text[0..x) in row y, inserts text[x..]
\* as row y + 1 and shifts the later rows down; with x = 0 it inserts an empty
\* row at y above the untruncated row; the cursor goes to (y + 1, 0).
C6_EnterSplitsRow ==
    [][(pc = "key" /\ ~prompting /\ lastKey' = "ENTER") =>
        LET y  == cursorY
            x  == cursorX
            T  == TextsOf(Doc)
            n  == rowsCount
        IN  /\ rowsCount' = n + 1
            /\ cursorY' = y + 1
            /\ cursorX' = 0
            /\ \A i \in 1..(n + 1) : Doc'[i].len = Len(Doc'[i].text)
            /\ IF x > 0
               THEN /\ TextsOf(Doc') =
                          SubSeq(T, 1, y)
                          \o <<SubSeq(T[y + 1], 1, x), SubSeq(T[y + 1], x + 1, Len(T[y + 1]))>>
                          \o SubSeq(T, y + 2, n)
                    /\ \A i \in (y + 2)..n : Doc'[i + 1] = Doc[i]
               ELSE /\ TextsOf(Doc') = SubSeq(T, 1, y) \o << <<>> >> \o SubSeq(T, y + 1, n)
                    /\ \A i \in (y + 1)..n : Doc'[i + 1] = Doc[i]
    ]_vars

C6_Witness ==
    /\ pc = "refresh" /\ ~prompting
    /\ lastKey = "ENTER"
    /\ cursorX = 0 /\ cursorY = 1
    /\ rowsCount = 3
    /\ TextsOf(Doc) = << <<"a">>, <<TAB>>, <<>> >>
    /\ dirty = 1

\* C7: Backspace at (y, 0), 0 < y < rowsCount, makes row y - 1 the
\* concatenation of rows y - 1 and y, removes row y, shifts the later rows up
\* and puts the cursor at (y - 1, old length of row y - 1).
C7_BackspaceJoinsRows ==
    [][(pc = "key" /\ ~prompting /\ lastKey' = "BACKSPACE"
        /\ cursorX = 0 /\ 0 < cursorY /\ cursorY < rowsCount) =>
        LET y == cursorY
            T == TextsOf(Doc)
            n == rowsCount
        IN  /\ rowsCount' = n - 1
            /\ cursorY' = y - 1
            /\ cursorX' = Len(T[y])
            /\ TextsOf(Doc') = SubSeq(T, 1, y - 1) \o <<T[y] \o T[y + 1]>> \o SubSeq(T, y + 2, n)
            /\ Doc'[y].len = Len(T[y]) + Len(T[y + 1])
            /\ \A i \in (y + 2)..n : Doc'[i - 1] = Doc[i]
    ]_vars

C7_Witness ==
    /\ pc = "refresh" /\ ~prompting
    /\ lastKey = "BACKSPACE"
    /\ dirty = 2
    /\ rowsCount = 2 /\ Len(rows) = 3
    /\ TextsOf(Doc) = << <<"a", TAB>>, <<>> >>
    /\ cursorY = 0 /\ cursorX = 1

\* C8: Backspace at row 0, column 0 changes neither the rows, rowsCount,
\* dirty nor the cursor.
C8_BackspaceAtOriginNoOp ==
    [][(pc = "key" /\ ~prompting /\ lastKey' = "BACKSPACE"
        /\ cursorX = 0 /\ cursorY = 0) =>
        UNCHANGED <<rows, rowsCount, dirty, cursorX, cursorY>>
    ]_vars

C8_Witness ==
    /\ pc = "refresh" /\ ~prompting
    /\ lastKey = "BACKSPACE"
    /\ cursorX = 0 /\ cursorY = 0
    /\ rowsCount > 1 /\ Doc[1].len > 0
    /\ dirty = 0

\* C9: insertChar(row, at, ch) followed by deleteChar(row, at), for at in
\* [0, row.len], gives back the row's text and len.
C9_InsertThenDeleteRestores ==
    \A k \in 2..Len(opLog) :
        (/\ opLog[k - 1].op = "insertChar"
         /\ opLog[k].op = "delChar"
         /\ opLog[k].at = opLog[k - 1].at
         /\ opLog[k].at \in 0..opLog[k - 1].before.len) =>
            /\ opLog[k].after.text = opLog[k - 1].before.text
            /\ opLog[k].after.len = opLog[k - 1].before.len

C9_Witness ==
    /\ Len(opLog) = 2
    /\ opLog[1].op = "insertChar" /\ opLog[1].at = 1 /\ opLog[1].c = TAB
    /\ opLog[1].before.text = <<"a", "a", TAB>>
    /\ opLog[2].op = "delChar" /\ opLog[2].at = 1
    /\ opLog[2].after.text = <<"a", "a", TAB>>

\* C10: deleteChar(row, at) with at < 0 or at >= row.len changes neither the
\* row nor dirty; with 0 <= at < row.len it removes the byte at offset at and
\* decreases len by one.
C10_DeleteCharOutOfBoundsNoOp ==
    \A k \in 1..Len(opLog) :
        opLog[k].op = "delChar" =>
            LET row == opLog[k].before
                at  == opLog[k].at
            IN  IF at < 0 \/ at >= row.len
                THEN /\ opLog[k].after = row
                     /\ opLog[k].dirtyAfter = opLog[k].dirtyBefore
                ELSE /\ opLog[k].after.text =
                            SubSeq(row.text, 1, at) \o SubSeq(row.text, at + 2, row.len)
                     /\ opLog[k].after.len = row.len - 1

(***************************************************************************)
(* The document functions (DocSpec)                                        *)
(***************************************************************************)
\* the last call of DocSpec was op
DocCall(op) == pc \in {"docops", "crashed"} /\ opLog # <<>> /\ opLog[1].op = op

\* the rows d without the row of index at
RemoveAt(d, at) == [i \in 1..(Len(d) - 1) |-> IF i <= at THEN d[i] ELSE d[i + 1]]

\* C11: editorDelRow(at) with at < 0 or at >= rowsCount (at == rowsCount
\* included) leaves rows, rowsCount and dirty unchanged and frees no row;
\* with 0 <= at < rowsCount it removes row at, moves the later rows up by one
\* and decreases rowsCount by one.
C11_DelRowOutOfRangeNoOp ==
    DocCall("delRow") =>
        LET o  == opLog[1]
            n  == o.before.rowsCount
        IN  IF o.at < 0 \/ o.at >= n
            THEN /\ DocOf(o.after) = DocOf(o.before)
                 /\ o.after.rowsCount = n
                 /\ o.after.dirty = o.before.dirty
                 /\ o.freed = <<>>
            ELSE /\ DocOf(o.after) = RemoveAt(DocOf(o.before), o.at)
                 /\ o.after.rowsCount = n - 1

\* C12: editorInsertRow(at, text) with 0 <= at <= rowsCount makes text the
\* row of index at, leaves the rows before at unchanged, moves the rows from
\* at on down by one, increases rowsCount by one and increases dirty; with
\* at < 0 or at > rowsCount it leaves the document unchanged.
C12_InsertRowAt ==
    DocCall("insertRow") =>
        LET o  == opLog[1]
            n  == o.before.rowsCount
            b  == DocOf(o.before)
            a  == DocOf(o.after)
        IN  IF 0 <= o.at /\ o.at <= n
            THEN /\ o.after.rowsCount = n + 1
                 /\ a[o.at + 1].text = o.text
                 /\ a[o.at + 1].len = Len(o.text)
                 /\ \A i \in 1..o.at : a[i] = b[i]
                 /\ \A i \in (o.at + 1)..n : a[i + 1] = b[i]
                 /\ o.after.dirty > o.before.dirty
            ELSE o.after = o.before

\* a row was inserted between two rows of a document
C12_Witness ==
    /\ DocCall("insertRow")
    /\ opLog[1].at >= 1
    /\ opLog[1].at < opLog[1].before.rowsCount
    /\ opLog[1].text # <<>>
    /\ rowsCount = opLog[1].before.rowsCount + 1

\* the text of each row of d followed by one '\n', row after row
RECURSIVE Lines(_)
Lines(d) == IF d = <<>> THEN <<>> ELSE d[1].text \o <<LF>> \o Lines(Tail(d))

\* C13: editorRowsToString returns the text of each row followed by exactly
\* one '\n', in row order; the length it reports is the sum over the rows of
\* (len + 1), which is the length of what it returns; an empty document
\* gives no bytes.
C13_RowsToStringIsLines ==
    DocCall("rowsToString") =>
        LET o == opLog[1]
            d == DocOf(o.before)
        IN  /\ o.result.buffer = Lines(d)
            /\ o.result.bufferLen = TotalLen(d) + Len(d)
            /\ o.result.bufferLen = Len(o.result.buffer)
            /\ (d = <<>> => o.result.buffer = <<>> /\ o.result.bufferLen = 0)

\* a document of two rows, one of them empty, was serialised
C13_Witness ==
    /\ DocCall("rowsToString")
    /\ rowsCount = 2
    /\ \E i \in 1..2 : Doc[i].len = 0
    /\ \E i \in 1..2 : Doc[i].len > 0
    /\ Len(opLog[1].result.buffer) >= 3

(***************************************************************************)
(* Loading and serialising (CrSpec, LoadSpec)                              *)
(***************************************************************************)
\* editorRowsToString would emit a '\r' now
EmitsCR == \E i \in 1..Len(editorRowsToString(St)) : editorRowsToString(St)[i] = CR

\* C14 as stated: whatever file was loaded and whatever edits followed,
\* editorRowsToString emits no '\r'.
C14_NeverEmitsCR == Running => ~EmitsCR

\* C14 amended: for every loaded file whose '\r' bytes all stand in the run of
\* '\r' and '\n' bytes that ends their line, and whatever edits followed,
\* editorRowsToString emits no '\r'.
C14_NoCRUnlessStray ==
    (Running /\ opLog # <<>> /\ ~opLog[1].strayCR) => ~EmitsCR

\* a file with '\r' bytes, none of them stray, was loaded and then edited
C14_Witness ==
    /\ Running
    /\ opLog # <<>>
    /\ ~opLog[1].strayCR
    /\ rowsCount >= 1
    /\ dirty > 0
    /\ ~EmitsCR

\* every "\r\n" of f replaced by "\n", nothing else changed
RECURSIVE CrLfToLf(_)
CrLfToLf(f) ==
    IF f = <<>> THEN <<>>
    ELSE IF Len(f) >= 2 /\ f[1] = CR /\ f[2] = LF
         THEN <<LF>> \o CrLfToLf(SubSeq(f, 3, Len(f)))
         ELSE <<f[1]>> \o CrLfToLf(Tail(f))

\* line without the '\r' bytes at its end
RECURSIVE DropTrailingCR(_)
DropTrailingCR(line) ==
    IF line # <<>> /\ line[Len(line)] = CR
    THEN DropTrailingCR(SubSeq(line, 1, Len(line) - 1)) ELSE line

\* the lines of f, each without the '\r' bytes at its end and followed by
\* one '\n'; line holds the bytes of the current line read so far
RECURSIVE TerminatedLines(_, _)
TerminatedLines(f, line) ==
    IF f = <<>>
    THEN IF line = <<>> THEN <<>> ELSE DropTrailingCR(line) \o <<LF>>
    ELSE IF f[1] = LF
         THEN DropTrailingCR(line) \o <<LF>> \o TerminatedLines(Tail(f), <<>>)
         ELSE TerminatedLines(Tail(f), Append(line, f[1]))

LoadedAndSerialised == pc = "serialised"

\* C15 as stated: load then editorRowsToString gives the file's bytes with
\* each "\n" or "\r\n" line ending replaced by '\n' and nothing else changed,
\* no line terminator added that the file did not have.
C15_RoundTripExact ==
    LoadedAndSerialised => opLog[1].result.buffer = CrLfToLf(opLog[1].file)

\* C15 amended: load then editorRowsToString gives the file's lines in order,
\* each without the '\r' bytes that end it and followed by one '\n', the
\* last line included when the file does not end in '\n'; no other byte is
\* added or dropped and no empty line is added.
C15_RoundTripTerminated ==
    LoadedAndSerialised =>
        /\ opLog[1].result.buffer = TerminatedLines(opLog[1].file, <<>>)
        /\ opLog[1].result.bufferLen = Len(opLog[1].result.buffer)

\* a file with a "\r\n" line and a last line without '\n' went the round
C15_Witness ==
    /\ LoadedAndSerialised
    /\ \E i \in 1..(Len(opLog[1].file) - 1) :
          opLog[1].file[i] = CR /\ opLog[1].file[i + 1] = LF
    /\ opLog[1].file[Len(opLog[1].file)] = "a"
    /\ rowsCount = 2

(***************************************************************************)
(* Saving (Spec)                                                           *)
(***************************************************************************)
SaveFailures == {"openFails", "truncateFails", "writeFails"}

\* C16: a save attempt that fails (open, ftruncate or write) leaves rows,
\* rowsCount, filename and dirty as they were before the attempt; a filename
\* that was absent is still absent.
C16_FailedSaveLeavesDocument ==
    [][saveIo' \in SaveFailures =>
           /\ rows' = rows
           /\ rowsCount' = rowsCount
           /\ dirty' = dirty
           /\ filename' = filename]_vars

\* C17: Ctrl+S without a filename enters the prompt and nothing is written
\* before or while the prompt runs; Escape in the prompt ends the save with
\* no file opened or written, filename still absent, rows and dirty unchanged.
C17_EscapeAbortsSaveAs ==
    /\ [](prompting => filename = NoName /\ saveIo = "none")
    /\ [][(pc = "key" /\ ~prompting /\ filename = NoName /\ lastKey' = "CTRL_S") =>
              /\ prompting'
              /\ saveIo' = "none"
              /\ UNCHANGED <<rows, rowsCount, dirty, filename>>]_vars
    /\ [][(pc = "key" /\ prompting /\ lastKey' = "ESC_CHAR") =>
              /\ ~prompting'
              /\ saveIo' = "aborted"
              /\ filename' = NoName
              /\ UNCHANGED <<rows, rowsCount, dirty>>]_vars

\* the prompt of a modified, unnamed document was left by Escape
C17_Witness ==
    /\ saveIo = "aborted"
    /\ lastKey = "ESC_CHAR"
    /\ filename = NoName
    /\ rowsCount >= 1
    /\ dirty > 0

(***************************************************************************)
(* Quitting (Spec)                                                         *)
(***************************************************************************)
\* the key handled last was Ctrl+Q, read by editorProcessKeyPress
QuitPressed == lastKey = "CTRL_Q" /\ pc \in {"refresh", "exited"}

\* C18: the process exits on a Ctrl+Q with dirty != 0 only when the countdown
\* is used up and that press ends an unbroken run of Ctrl+Q presses, one for
\* each count and the one that exits; the countdown is its initial value
\* less the presses of the current run, so any other key puts it back to the
\* initial value; with dirty == 0 one Ctrl+Q exits.
C18_QuitNeedsUnbrokenRun ==
    /\ (pc = "exited" /\ dirty # 0) => (quitTimes = 0 /\ quitRun > QUIT_TIMES)
    /\ (pc \in {"refresh", "key"} /\ ~prompting) =>
           (quitRun <= QUIT_TIMES /\ quitTimes = QUIT_TIMES - quitRun)
    /\ (pc = "refresh" /\ ~prompting /\ lastKey # "CTRL_Q") => quitTimes = QUIT_TIMES
    /\ prompting => quitRun = 0
    /\ (QuitPressed /\ dirty = 0) => (pc = "exited" /\ quitRun = 1)

\* a run of Ctrl+Q presses that used up the countdown ended the process
\* with dirty != 0
C18_Witness ==
    /\ pc = "exited"
    /\ dirty # 0
    /\ quitRun = QUIT_TIMES + 1
    /\ rowsCount >= 1

\* C19 as stated: with dirty != 0, a Ctrl+Q exits exactly when it is the
\* QUIT_TIMES-th press of its run.
C19_ExitsOnNthPress ==
    (QuitPressed /\ dirty # 0) => (pc = "exited" <=> quitRun = QUIT_TIMES)

\* C19 amended: with dirty != 0, a Ctrl+Q exits exactly when it is the
\* (QUIT_TIMES + 1)-th press of its run: QUIT_TIMES presses count down, each
\* with a warning, and the next one exits.
C19_ExitsAfterNWarnings ==
    (QuitPressed /\ dirty # 0) => (pc = "exited" <=> quitRun = QUIT_TIMES + 1)

\* the last warning: QUIT_TIMES presses made, the process still running
C19_Witness ==
    /\ QuitPressed
    /\ dirty # 0
    /\ quitRun = QUIT_TIMES
    /\ pc = "refresh"
    /\ quitTimes = 0

(***************************************************************************)
(* Frames (Spec)                                                           *)
(***************************************************************************)
\* C20: a frame (one editorRefreshScreen) makes exactly one write to the
\* terminal, the one that carries the whole buffer, and no write that clears
\* the whole screen.
C20_OneWritePerFrame ==
    pc = "key" => termWrites = <<"sb">>

(***************************************************************************)
(* Cursor movement (MoveSpec)                                              *)
(***************************************************************************)
Min(a, b) == IF a < b THEN a ELSE b

Max(a, b) == IF a > b THEN a ELSE b

\* the length of the row of index y, 0 for the virtual row past the end
LenAt(y) == IF 0 <= y /\ y < rowsCount THEN Doc[y + 1].len ELSE 0

\* the key that editorProcessKeyPress handles in this step is one of keys
Pressing(keys) == pc = "key" /\ ~prompting /\ lastKey' \in keys

\* the row one line up (dir = -1) or down (dir = 1) from y
LineFrom(y, dir) ==
    IF dir < 0 THEN (IF y > 0 THEN y - 1 ELSE y)
    ELSE (IF y < rowsCount THEN y + 1 ELSE y)

\* C21: after ArrowUp or ArrowDown from (y, x), cursorX is min(x, length of
\* the row at the new cursorY), the virtual row counting as length 0; no
\* column is remembered.
C21_VerticalMoveClamps ==
    [][Pressing({"ARROW_UP", "ARROW_DOWN"}) =>
           /\ cursorY' = LineFrom(cursorY, IF lastKey' = "ARROW_UP" THEN -1 ELSE 1)
           /\ cursorX' = Min(cursorX, LenAt(cursorY'))]_vars

\* the cursor came up onto a row from a shorter row below it, and stands at
\* the shorter row's length
C21_Witness ==
    /\ pc = "refresh"
    /\ lastKey = "ARROW_UP"
    /\ cursorY + 1 < rowsCount
    /\ cursorX > 0
    /\ LenAt(cursorY + 1) = cursorX
    /\ LenAt(cursorY) > cursorX

\* n single-line moves in direction dir from (y, x), each clamping the column
RECURSIVE LineMoves(_, _, _, _)
LineMoves(y, x, dir, n) ==
    IF n = 0 THEN <<y, x>>
    ELSE LineMoves(LineFrom(y, dir), Min(x, LenAt(LineFrom(y, dir))), dir, n - 1)

\* C22: PageUp puts cursorY at max(0, rowOffset - screenRows), PageDown at
\* min(rowsCount, min(rowOffset + screenRows - 1, rowsCount) + screenRows),
\* rowOffset being that of the last frame; the cursor is where screenRows
\* single-line moves from the window's top (bottom) edge lead, and cursorX
\* is within the landing row.
C22_PageMoves ==
    [][Pressing({"PAGE_UP", "PAGE_DOWN"}) =>
           LET up      == lastKey' = "PAGE_UP"
               anchor  == IF up THEN rowOffset
                          ELSE Min(rowOffset + screenRows - 1, rowsCount)
               landing == IF up THEN Max(0, rowOffset - screenRows)
                          ELSE Min(rowsCount, anchor + screenRows)
           IN  /\ cursorY' = landing
               /\ <<cursorY', cursorX'>> =
                      LineMoves(anchor, cursorX, IF up THEN -1 ELSE 1, screenRows)
               /\ cursorX' <= LenAt(landing)]_vars

\* PageDown landed on a row of the document below the first window, with
\* the column kept
C22_Witness ==
    /\ pc = "refresh"
    /\ lastKey = "PAGE_DOWN"
    /\ cursorY > screenRows
    /\ cursorY < rowsCount
    /\ cursorX > 0

\* C29: End puts cursorX at the length of the current row, whatever the
\* row's length and the window's width, and leaves it 0 on the virtual row.
C29_EndGoesToEndOfRow ==
    [][Pressing({"END_KEY"}) =>
           /\ cursorY' = cursorY
           /\ cursorX' = LenAt(cursorY)]_vars

(***************************************************************************)
(* Leaving the program (ExitSpec)                                          *)
(***************************************************************************)
\* the process has ended after enableRawMode() had put the terminal in raw mode
EndedAfterRaw == pc = "ended" /\ term.rawSet

\* C23 as stated: on every exit after raw mode was enabled, with status 0 or
\* 1, the original settings are restored exactly once before the process ends.
C23_RestoredExactlyOnce ==
    EndedAfterRaw => (term.restores = 1 /\ ~term.raw)

\* C23 amended: on every exit after raw mode was enabled resetTerminal runs
\* before the process ends; the settings are restored at most once, they are
\* restored exactly when the last tcsetattr of resetTerminal succeeded, and
\* when it failed the process ends with status 1 and the terminal still raw.
C23_RestoreAttempted ==
    EndedAfterRaw =>
        /\ term.attempts >= 1
        /\ term.restores <= 1
        /\ (term.restores = 1 <=> ~term.raw)
        /\ (term.restores = 0 => term.status = "exit1")
        /\ (term.status = "exit0" => term.restores = 1 /\ term.attempts = 1)

\* a failed key read ended an edited session through die(), and the terminal
\* was restored by the one run of resetTerminal
C23_Witness ==
    /\ EndedAfterRaw
    /\ term.status = "exit1"
    /\ term.restores = 1
    /\ term.attempts = 1
    /\ ~term.raw
    /\ dirty > 0

(***************************************************************************)
(* The save-as prompt (PromptSpec)                                         *)
(***************************************************************************)
\* the bytes of buf are printable ASCII bytes
PrintableAscii(buf) ==
    \A i \in 1..Len(buf) :
        \E k \in PromptInput : k.byte = buf[i] /\ k.value \in 32..126

\* the buffer without its last byte
DropLast(buf) == IF Len(buf) = 0 THEN buf ELSE SubSeq(buf, 1, Len(buf) - 1)

\* C24: a key read by the prompt loop ends the loop only when it is Enter with
\* a non-empty buffer (the buffer, as typed and shortened by Backspace, becomes
\* the filename) or Escape (the save is aborted); Enter and Backspace on an
\* empty buffer leave the prompt active with the buffer empty; Backspace drops
\* the last byte; any other key leaves the buffer or appends the byte read, and
\* the buffer never holds a control byte or a non-ASCII code; while the prompt
\* is active the rows, dirty and the cursor do not change.
C24_PromptLoop ==
    [][(pc = "key" /\ prompting) =>
          /\ (~prompting' =>
                \/ lastKey' = "ENTER" /\ promptBuf # <<>> /\ filename' = promptBuf
                \/ lastKey' = "ESC_CHAR" /\ saveIo' = "aborted"
                                         /\ filename' = filename)
          /\ (lastKey' = "ENTER" /\ promptBuf = <<>> =>
                prompting' /\ promptBuf' = <<>>)
          /\ (lastKey' = "BACKSPACE" => prompting' /\ promptBuf' = DropLast(promptBuf))
          /\ (prompting' /\ lastKey' \notin {"ENTER", "BACKSPACE"} =>
                \/ promptBuf' = promptBuf
                \/ promptBuf' = Append(promptBuf, lastKey'))
          /\ (prompting' => PrintableAscii(promptBuf'))
          /\ (prompting' =>
                /\ rows' = rows /\ rowsCount' = rowsCount /\ dirty' = dirty
                /\ cursorX' = cursorX /\ cursorY' = cursorY)]_vars

(***************************************************************************)
(* The frame drawn by editorDrawRows                                       *)
(***************************************************************************)
\* the positions of out where a "\r\n" starts
Terminators(out) == {j \in 1..(Len(out) - 1) : out[j] = CR /\ out[j + 1] = LF}

\* the positions of out that hold a clear-to-end-of-line sequence
Clears(out) == {j \in 1..Len(out) : out[j] = "ESC[K"}

\* the positions of out that hold the first byte of the welcome title
Titles(out) == {j \in 1..Len(out) : out[j] = "A"}

\* C25: the frame editorDrawRows appends for the state just drawn has exactly
\* screenRows "\r\n" terminators, each directly after a clear-to-end-of-line
\* sequence and no such sequence elsewhere; the welcome title is in the frame
\* only when rowsCount = 0, on the line of index screenRows / 3.
C25_DrawRowsLines ==
    pc = "key" =>
        LET out == editorDrawRows(St)
        IN  /\ Cardinality(Terminators(out)) = screenRows
            /\ Cardinality(Clears(out)) = screenRows
            /\ \A j \in Terminators(out) : j > 1 /\ out[j - 1] = "ESC[K"
            /\ \A j \in Titles(out) :
                  /\ rowsCount = 0
                  /\ Cardinality({t \in Terminators(out) : t < j}) = screenRows \div 3

\* C25 without the welcome banner: the same for a frame with rows in it
C25_DrawRowsLinesOfDocument ==
    pc = "key" /\ rowsCount > 0 =>
        LET out == editorDrawRows(St)
        IN  /\ Cardinality(Terminators(out)) = screenRows
            /\ Cardinality(Clears(out)) = screenRows
            /\ \A j \in Terminators(out) : j > 1 /\ out[j - 1] = "ESC[K"
            /\ Titles(out) = {}

(***************************************************************************)
(* Backspace, Delete and Enter (EditSpec)                                  *)
(***************************************************************************)
\* the texts of the rows of the document d
Texts(d) == [i \in 1..Len(d) |-> d[i].text]

\* the texts of the rows after the step
TextsNext == Texts(DocOf([rows |-> rows', rowsCount |-> rowsCount']))

\* the key read in this step is key, outside the prompt
Key(key) == pc = "key" /\ ~prompting /\ lastKey' = key

\* C26: Backspace with the cursor at (y, x), 0 < x <= rows[y].len, removes the
\* byte at offset x - 1 of row y and no other byte, moves the cursor to
\* (y, x - 1) and leaves rowsCount unchanged.
C26_BackspaceRemovesLeftByte ==
    [][(Key("BACKSPACE") /\ cursorY < rowsCount /\ 0 < cursorX
            /\ cursorX <= LenAt(cursorY)) =>
          /\ TextsNext = [Texts(Doc) EXCEPT
                            ![cursorY + 1] = RemoveAt(@, cursorX - 1)]
          /\ cursorX' = cursorX - 1
          /\ cursorY' = cursorY
          /\ rowsCount' = rowsCount]_vars

\* C27: Delete with the cursor at (y, x), x < rows[y].len, removes the byte at
\* offset x and leaves the cursor; at the end of a row that has a successor it
\* appends the next row to the row and removes the next row, the cursor
\* unchanged; at the end of the last row and on the virtual row it changes
\* neither the rows nor the cursor.
C27_DeleteRemovesByteUnderCursor ==
    [][Key("DEL_KEY") =>
          /\ cursorX' = cursorX
          /\ cursorY' = cursorY
          /\ TextsNext =
                IF cursorY < rowsCount /\ cursorX < LenAt(cursorY)
                THEN [Texts(Doc) EXCEPT ![cursorY + 1] = RemoveAt(@, cursorX)]
                ELSE IF cursorY + 1 < rowsCount
                THEN RemoveAt([Texts(Doc) EXCEPT
                                  ![cursorY + 1] = @ \o Texts(Doc)[cursorY + 2]],
                              cursorY + 1)
                ELSE Texts(Doc)]_vars

\* Enter then Backspace were the last two keys
EnterBackspace == opLog # <<>> /\ opLog[1].op = "enterBackspace"

\* the rows, rowsCount and the cursor are those of the editor state e
SameAs(e) ==
    /\ Texts(Doc) = Texts(DocOf(e))
    /\ rowsCount = e.rowsCount
    /\ cursorX = e.cursorX
    /\ cursorY = e.cursorY

\* C28 as stated: Enter then Backspace from any cursor position, the virtual
\* row y = rowsCount included, restores the rows, rowsCount and the cursor.
C28_EnterBackspaceRestores ==
    EnterBackspace => SameAs(opLog[1].before)

\* C28 amended: Enter then Backspace from a cursor position on a row
\* (y < rowsCount) restores the rows, rowsCount and the cursor; from the
\* virtual row Enter appends an empty row, the cursor goes to the new virtual
\* row and Backspace changes nothing, so an empty row is left at the end.
C28_EnterBackspaceRestoresOnRows ==
    EnterBackspace =>
        LET b == opLog[1].before
        IN  IF b.cursorY < b.rowsCount
            THEN SameAs(b)
            ELSE /\ Texts(Doc) = Append(Texts(DocOf(b)), <<>>)
                 /\ rowsCount = b.rowsCount + 1
                 /\ cursorX = 0
                 /\ cursorY = b.rowsCount + 1

\* Enter split a row with a tab inside it and Backspace joined the two parts
C28_Witness ==
    /\ EnterBackspace
    /\ opLog[1].before.cursorY < opLog[1].before.rowsCount
    /\ 0 < cursorX
    /\ cursorX < LenAt(cursorY)
    /\ TAB \in Range(Doc[cursorY + 1].text)
    /\ lastKey = "BACKSPACE"

(***************************************************************************)
(* The slots editorDelRow touches (DocSpec)                                *)
(***************************************************************************)
\* C30: every slot editorDelRow(at) touches, the row it releases and the
\* slots its shift reads and writes, has an index in [0, rowsCount), for every
\* at it accepts and every document size.
C30_DelRowTouchesRowsOnly ==
    DocCall("delRow") =>
        editorDelRowTouched(opLog[1].before, opLog[1].at)
            \subseteq 0..(opLog[1].before.rowsCount - 1)

====
